---- MODULE Spec2Model ----
(***************************************************************************)
(* Incident relay: a Telegram bot (server.js) that forwards reported       *)
(* locations to a group channel, persists them in a MongoDB collection,    *)
(* lets group members change the status through inline buttons, serves a   *)
(* small HTTP surface and fans lifecycle events out to dashboard viewers   *)
(* (public/script.js, the polling client).                                 *)
(*                                                                         *)
(* Every asynchronous handler is cut at its awaits: one action per remote  *)
(* effect (channel send, channel edit, store read or write) together with  *)
(* the synchronous code that follows the previous await.  Handlers that    *)
(* are in flight interleave freely, as they do on the Node event loop.     *)
(***************************************************************************)
EXTENDS Integers, Sequences, FiniteSets, TLC

\* ------------------------------------------------------------------ bounds

\* Handlers (location, callback_query, DELETE) started in one run of Spec.
MaxOps == 2

\* Store mutations, polls, disconnections and reconnections in one run of
\* SpecPoll.
MaxPollSteps == 5

\* Viewer connections, disconnections and store mutations in one run of
\* SpecConn.
MaxConnSteps == 4

\* The highest message_id the group chat hands out in a run of SpecPoll or
\* SpecConn.
MaxMessageId == 4

\* ------------------------------------------------------- strings as characters

\* JavaScript strings that the code takes apart (callback data, id strings)
\* are sequences of one-character strings.
US == <<"_">>
S_tow == <<"t", "o", "w">>
S_scene == <<"s", "c", "e", "n", "e">>
S_eagles == <<"e", "a", "g", "l", "e", "s">>
S_other == <<"o", "t", "h", "e", "r">>
S_cleared == <<"c", "l", "e", "a", "r", "e", "d">>
S_bogus == <<"b", "o", "g", "u", "s">>
S_token == <<"t", "o", "k", "e", "n">>
S_42 == <<"4", "2">>
S_1 == <<"1">>

\* The value of a missing array element (parts[1] of a one-part token).
Undefined == <<"<undefined>">>

\* String.prototype.split with a one-character separator: the pieces between
\* the separators, empty pieces kept.
RECURSIVE SplitFrom(_, _, _, _)
SplitFrom(s, sep, i, cur) ==
    IF i > Len(s) THEN <<cur>>
    ELSE IF s[i] = sep THEN <<cur>> \o SplitFrom(s, sep, i + 1, <<>>)
    ELSE SplitFrom(s, sep, i + 1, Append(cur, s[i]))

Split(s, sep) == SplitFrom(s, sep, 1, <<>>)

\* parts[i] of a JavaScript array (0-based): undefined past the end.
At(parts, i) == IF i + 1 <= Len(parts) THEN parts[i + 1] ELSE Undefined

\* ------------------------------------------------------------- ObjectId

HexChr == <<"0", "1", "2", "3", "4", "5", "6", "7",
            "8", "9", "a", "b", "c", "d", "e", "f">>

HexVal(c) ==
    CASE c = "0" -> 0 [] c = "1" -> 1 [] c = "2" -> 2 [] c = "3" -> 3
      [] c = "4" -> 4 [] c = "5" -> 5 [] c = "6" -> 6 [] c = "7" -> 7
      [] c = "8" -> 8 [] c = "9" -> 9
      [] c \in {"a", "A"} -> 10 [] c \in {"b", "B"} -> 11
      [] c \in {"c", "C"} -> 12 [] c \in {"d", "D"} -> 13
      [] c \in {"e", "E"} -> 14 [] c \in {"f", "F"} -> 15
      [] OTHER -> -1

\* ObjectId.prototype.toHexString: 24 lower-case hex digits of the 12-byte
\* value (an ObjectId is held here as the number its bytes spell).
RECURSIVE HexOf(_, _)
HexOf(n, w) == IF w = 0 THEN <<>> ELSE Append(HexOf(n \div 16, w - 1), HexChr[(n % 16) + 1])

ToHexString(oid) == HexOf(oid, 24)

RECURSIVE HexNum(_, _)
HexNum(s, i) == IF i = 0 THEN 0 ELSE 16 * HexNum(s, i - 1) + HexVal(s[i])

\* new ObjectId(string): a string of 24 hex characters (either case) is
\* parsed, anything else throws.
ObjectIdValid(s) == Len(s) = 24 /\ \A i \in 1..Len(s) : HexVal(s[i]) >= 0

ObjectIdOf(s) == HexNum(s, Len(s))

ToUpper(c) ==
    CASE c = "a" -> "A" [] c = "b" -> "B" [] c = "c" -> "C"
      [] c = "d" -> "D" [] c = "e" -> "E" [] c = "f" -> "F"
      [] OTHER -> c

UpperCase(s) == [i \in 1..Len(s) |-> ToUpper(s[i])]

\* ------------------------------------------------------------------ state

VARIABLES
    db,         \* the incidents collection, in insertion order
    nextOid,    \* the ObjectId the driver generates next
    channel,    \* the group chat: its messages, message_id = position
    emitted,    \* io.emit calls, in order: <<event, payload>>
    locs,       \* bot.on('location') handlers, started so far
    cbs,        \* bot.on('callback_query') handlers, started so far
    dels,       \* app.delete('/incidents/:id') requests, started so far
    displayedIncidentIds,  \* script.js: ids on display
    statusShown,           \* script.js: the status span of each list item
    lastPollIncidents,     \* script.js: the previous poll's snapshot
    inbox,                 \* socket events delivered to the client, unprocessed
    fanout,                \* whether the client's socket is receiving
    polls,                 \* fetch('/incidents') responses in flight, each with
                           \* the value of nextOid when the server read the store
    pollSteps,             \* steps taken in a run of SpecPoll or SpecConn
    tokenIn,               \* SpecToken: the callback data handed to the mapping
    tokenOut,              \* SpecToken: what lines 178-194 make of it
    mergeIn,               \* SpecMerge: a viewer, a local view, an operation and
                           \* its argument
    mergeOut,              \* SpecMerge: the view after each application
    sockets,               \* SpecConn: the socket.io connections made so far
    server,                \* the process: store handle assigned, listening, exited
    gets,                  \* app.get('/incidents') requests, answered so far
    unsent,                \* events whose store call is done and whose emit is
                           \* still to come (SpecPoll, SpecConn)
    forwardedIds,          \* SpecPoll, SpecConn: forwardedMessage.message_id of
                           \* every report stored so far
    reading,               \* SpecPoll: the connection handler of the client's
                           \* socket awaits find({}).toArray()
    deletedSeen            \* script.js: the ids whose incident_deleted event the
                           \* client has handled (kept for the record only)

serverVars == <<db, nextOid, channel, emitted, locs, cbs, dels>>
clientVars == <<displayedIncidentIds, statusShown, lastPollIncidents, inbox,
                fanout, polls, pollSteps, deletedSeen>>
httpVars == <<server, gets, unsent, forwardedIds, reading>>
tokenVars == <<tokenIn, tokenOut>>
mergeVars == <<mergeIn, mergeOut>>
pureVars == <<tokenIn, tokenOut, mergeIn, mergeOut>>
vars == <<db, nextOid, channel, emitted, locs, cbs, dels,
          displayedIncidentIds, statusShown, lastPollIncidents, inbox,
          fanout, polls, pollSteps, tokenIn, tokenOut, mergeIn, mergeOut,
          sockets, server, gets, unsent, forwardedIds, reading, deletedSeen>>

\* TELEGRAM_GROUP_ID, and the chat id Telegram reports for that group.
GroupId == "group"

\* A reporter's Telegram user id (msg.from.id).
Reporters == {42}

\* Reported (latitude, longitude) pairs, in whole degrees: one within
\* lat [-90, 90], lon [-180, 180], one with the latitude outside and one with
\* the longitude outside.
LocationInputs == {<<-25, 28>>, <<91, 28>>, <<-25, -181>>}

\* callback_data values: the three tokens of the inline keyboard, and tokens
\* no button carries.
TokenInputs ==
    { S_tow \o US \o S_eagles \o US \o S_42,
      S_scene \o US \o S_cleared \o US \o S_42,
      S_bogus \o US \o S_token \o US \o S_1,
      S_scene \o US \o S_other \o US \o S_42,
      S_tow,
      S_tow \o US \o S_eagles }

Ops == Len(locs) + Len(cbs) + Len(dels) + Len(gets)

\* ------------------------------------------------------- the collection

\* collection.findOne(filter) and its kin act on the first document, in
\* natural order, that matches: its position among the positions that match,
\* 0 when none does.
FirstOf(hits) == IF hits = {} THEN 0 ELSE CHOOSE i \in hits : \A j \in hits : i <= j

\* The handle `db` (line 27) is undefined until connectToMongo assigns it
\* (line 34); db.collection(...) on the undefined handle throws.
DbAssigned(process) == process.connected

\* The process runs until process.exit (line 38) or until a promise nobody
\* handles rejects and Node ends it.
Running(process) == ~process.exited

\* A promise rejects and nothing handles the rejection: Node (from release
\* 15 on) ends the process.
UnhandledRejection(process) == [process EXCEPT !.exited = TRUE]

RemoveAt(coll, i) == [j \in 1..(Len(coll) - 1) |-> IF j < i THEN coll[j] ELSE coll[j + 1]]

\* ---------------------------------------------------- bot.on('location')

\* The message sent to the group with the inline keyboard (lines 113-127).
IncidentMessage(from, lat, lon) ==
    [kind |-> "text", from |-> from, latitude |-> lat, longitude |-> lon,
     text |-> <<>>, reply_markup |-> "inline_keyboard"]

LocationMessage(lat, lon) ==
    [kind |-> "location", from |-> 0, latitude |-> lat, longitude |-> lon,
     text |-> <<>>, reply_markup |-> "none"]

\* msg.from.first_name of the reporters.
FirstName(from) == IF from = 42 THEN "Thabo" ELSE "Unknown"

\* new Date() (lines 153 and 211): a reading of the clock, told apart from
\* every other reading by the handler that took it and, for a report, the
\* group message it was taken for, for a resolution, the handler's run.
NewDate(handler, call) == <<handler, call>>

\* The document built at lines 145-154; last_updated is not among its
\* fields, <<>> stands for its absence.
NewIncidentMutNoRef(h, message_id, chat_id) ==
    [reporter_id |-> h.from, reporter_name |-> FirstName(h.from),
     latitude |-> h.latitude, longitude |-> h.longitude,
     status |-> "active", telegram_message_id |-> 0,
     telegram_chat_id |-> chat_id,
     timestamp |-> NewDate("location", message_id), last_updated |-> <<>>]

NewIncident(h, message_id, chat_id) ==
    [reporter_id |-> h.from, reporter_name |-> FirstName(h.from),
     latitude |-> h.latitude, longitude |-> h.longitude,
     status |-> "active", telegram_message_id |-> message_id,
     telegram_chat_id |-> chat_id,
     timestamp |-> NewDate("location", message_id), last_updated |-> <<>>]

WithId(doc, oid) ==
    [_id |-> oid, reporter_id |-> doc.reporter_id,
     reporter_name |-> doc.reporter_name, latitude |-> doc.latitude,
     longitude |-> doc.longitude, status |-> doc.status,
     telegram_message_id |-> doc.telegram_message_id,
     telegram_chat_id |-> doc.telegram_chat_id,
     timestamp |-> doc.timestamp, last_updated |-> doc.last_updated]

\* reply: the private message the handler sends the reporter ("ack", line
\* 159, or "error", line 166); ack: what became of the acknowledgement,
\* which the handler does not wait for.
LocHandler(from, lat, lon, pc, reply) ==
    [pc |-> pc, from |-> from, latitude |-> lat, longitude |-> lon,
     forwarded |-> 0, inserted |-> <<>>, reply |-> reply, ack |-> "none"]

\* The catch block (lines 164-167): log, tell the reporter, stop.
LocationFailedMutSilent(h) == [h EXCEPT !.pc = "done"]

LocationFailed(h) == [h EXCEPT !.pc = "done", !.reply = "error"]

\* insertedIncident (line 156): the document with the id insertOne returned.
InsertedIncidentMutNoId(newIncident, insertedId) == WithId(newIncident, 0)

InsertedIncident(newIncident, insertedId) == WithId(newIncident, insertedId)

\* A location message arrives; the handler runs to its first await and
\* bot.sendLocation (line 131) delivers the location to the group, or fails
\* and the catch block (line 166) tells the reporter.
LocationReceived(from, lat, lon) ==
    /\ Running(server)
    /\ Ops < MaxOps
    /\ \/ /\ channel' = Append(channel, LocationMessage(lat, lon))
          /\ locs' = Append(locs, LocHandler(from, lat, lon, "sendMessage", "none"))
       \/ /\ channel' = channel
          /\ locs' = Append(locs, LocationFailed(LocHandler(from, lat, lon, "sendLocation", "none")))
    /\ UNCHANGED <<db, nextOid, emitted, cbs, dels>>
    /\ UNCHANGED <<clientVars, pureVars, sockets, httpVars>>

\* bot.sendMessage to the group (lines 134-142) returns the message it sent.
LocationSendMessage(i) ==
    /\ Running(server)
    /\ locs[i].pc = "sendMessage"
    /\ \/ /\ channel' = Append(channel,
                 IncidentMessage(locs[i].from, locs[i].latitude, locs[i].longitude))
          /\ locs' = [locs EXCEPT ![i].pc = "insert",
                                  ![i].forwarded = Len(channel) + 1]
       \/ /\ channel' = channel
          /\ locs' = [locs EXCEPT ![i] = LocationFailed(locs[i])]
    /\ UNCHANGED <<db, nextOid, emitted, cbs, dels>>
    /\ UNCHANGED <<clientVars, pureVars, sockets, httpVars>>

\* insertOne (line 155) stores the document under a fresh ObjectId.
LocationInsert(i) ==
    /\ Running(server)
    /\ locs[i].pc = "insert"
    /\ \/ LET newIncident == NewIncident(locs[i], locs[i].forwarded, GroupId)
          IN  /\ DbAssigned(server)
              /\ db' = Append(db, WithId(newIncident, nextOid))
              /\ nextOid' = nextOid + 1
              /\ locs' = [locs EXCEPT ![i].pc = "emit",
                              ![i].inserted = <<InsertedIncident(newIncident, nextOid)>>]
       \/ /\ UNCHANGED <<db, nextOid>>
          /\ locs' = [locs EXCEPT ![i] = LocationFailed(locs[i])]
    /\ UNCHANGED <<channel, emitted, cbs, dels>>
    /\ UNCHANGED <<clientVars, pureVars, sockets, httpVars>>

\* Lines 156-162: send the reporter the acknowledgement, without waiting for
\* it, and broadcast.
LocationEmit(i) ==
    /\ Running(server)
    /\ locs[i].pc = "emit"
    /\ emitted' = Append(emitted, <<"new_incident", locs[i].inserted[1]>>)
    /\ locs' = [locs EXCEPT ![i].pc = "done", ![i].reply = "ack"]
    /\ UNCHANGED <<db, nextOid, channel, cbs, dels>>
    /\ UNCHANGED <<clientVars, pureVars, sockets, httpVars>>

\* The promise of the private message to the reporter (the acknowledgement
\* of line 159 or the error notice of line 166), which the handler does not
\* await, settles some time after the handler has gone on: the message
\* reached the reporter, or the send failed and nothing handles the
\* rejection: the promise is the library's, and with it the process ends or
\* only a warning is printed, by the library's release.
LocationAckSettled(i) ==
    /\ Running(server)
    /\ locs[i].reply \in {"ack", "error"}
    /\ locs[i].ack = "none"
    /\ \/ /\ locs' = [locs EXCEPT ![i].ack = "delivered"]
          /\ server' = server
       \/ /\ locs' = [locs EXCEPT ![i].ack = "failed"]
          /\ server' \in {server, UnhandledRejection(server)}
    /\ UNCHANGED <<db, nextOid, channel, emitted, cbs, dels>>
    /\ UNCHANGED <<clientVars, pureVars, sockets, gets, unsent, forwardedIds, reading>>

\* ----------------------------------------------- bot.on('callback_query')

\* Lines 186-194: the status an (action, type) pair stands for; "" is the
\* value newStatus keeps on the branch that answers "Unknown action.".
NewStatusMutEagles(action, type) ==
    IF action = S_tow
    THEN (IF type = S_eagles THEN "Tow Requested: Other" ELSE "Tow Requested: Other")
    ELSE IF action = S_scene /\ type = S_cleared THEN "Scene Cleared"
    ELSE ""

NewStatusMutScene(action, type) ==
    IF action = S_tow
    THEN (IF type = S_eagles THEN "Tow Requested: Eagles 24" ELSE "Tow Requested: Other")
    ELSE IF action = S_scene THEN "Scene Cleared"
    ELSE ""

NewStatus(action, type) ==
    IF action = S_tow
    THEN (IF type = S_eagles THEN "Tow Requested: Eagles 24" ELSE "Tow Requested: Other")
    ELSE IF action = S_scene /\ type = S_cleared THEN "Scene Cleared"
    ELSE ""

\* Line 190: only the scene-cleared branch sets removeButtons.
RemoveButtons(action, type) == action # S_tow /\ action = S_scene /\ type = S_cleared

\* Lines 178-180.
ActionOf(data) == At(Split(data, "_"), 0)
TypeOf(data) == At(Split(data, "_"), 1)

StatusUpdated(status) == <<"Status updated to: ", status>>

CbHandler(m, data) ==
    [pc |-> "edit", data |-> data,
     message_id |-> m, chat_id |-> GroupId,
     text |-> channel[m].text, reply_markup |-> channel[m].reply_markup,
     newStatus |-> NewStatus(ActionOf(data), TypeOf(data)),
     removeButtons |-> RemoveButtons(ActionOf(data), TypeOf(data)),
     edited |-> FALSE, updated |-> FALSE, result |-> <<>>,
     edits |-> 0, updates |-> 0, emits |-> 0, answers |-> <<>>]

\* The catch block (lines 223-226): log, call answerCallbackQuery with the
\* error text and await it (pc "catch").
CatchErrorMutRetry(h) == [h EXCEPT !.answers = Append(h.answers, "Error updating status.")]

CatchError(h) ==
    [h EXCEPT !.pc = "catch", !.answers = Append(h.answers, "Error updating status.")]

\* A button press on message m arrives with callback data `data` and the
\* message as it is now; the handler runs to its first await: of
\* answerCallbackQuery for an unknown action (line 192, pc "unknown"), of
\* editMessageText otherwise (line 200).
CallbackReceived(m, data) ==
    /\ Running(server)
    /\ Ops < MaxOps
    /\ m \in 1..Len(channel)
    /\ channel[m].reply_markup = "inline_keyboard"
    /\ LET h == CbHandler(m, data)
       IN  IF h.newStatus = ""
           THEN cbs' = Append(cbs, [h EXCEPT !.pc = "unknown",
                                             !.answers = <<"Unknown action.">>])
           ELSE cbs' = Append(cbs, h)
    /\ UNCHANGED <<db, nextOid, channel, emitted, locs, dels>>
    /\ UNCHANGED <<clientVars, pureVars, sockets, httpVars>>

\* The text and markup handed to editMessageText (lines 196-206).
EditedMessage(old, h) ==
    [old EXCEPT !.text = Append(h.text, h.newStatus),
                !.reply_markup = IF h.removeButtons THEN "none" ELSE h.reply_markup]

\* editMessageText takes effect in the group, or fails (line 223).
CallbackEdit(i) ==
    /\ Running(server)
    /\ cbs[i].pc = "edit"
    /\ \/ /\ channel' = [channel EXCEPT
                 ![cbs[i].message_id] = EditedMessage(channel[cbs[i].message_id], cbs[i])]
          /\ cbs' = [cbs EXCEPT ![i].pc = "update", ![i].edited = TRUE,
                                ![i].edits = cbs[i].edits + 1]
       \/ /\ channel' = channel
          /\ cbs' = [cbs EXCEPT ![i] = CatchError([cbs[i] EXCEPT !.edits = cbs[i].edits + 1])]
    /\ UNCHANGED <<db, nextOid, emitted, locs, dels>>
    /\ UNCHANGED <<clientVars, pureVars, sockets, httpVars>>

\* The update of findOneAndUpdate (line 211):
\* { $set: { status: newStatus, last_updated: new Date() } }.
SetStatusMutNoStamp(doc, status, now) == [doc EXCEPT !.status = status]

SetStatus(doc, status, now) ==
    [doc EXCEPT !.status = status, !.last_updated = <<now>>]

\* The filter of findOneAndUpdate (line 210).
MatchesMessage(doc, h) ==
    doc.telegram_message_id = h.message_id /\ doc.telegram_chat_id = h.chat_id

\* findOneAndUpdate (lines 209-213) sets the status of the first match and
\* returns the document after the update, or null.
CallbackUpdate(i) ==
    /\ Running(server)
    /\ cbs[i].pc = "update"
    /\ \/ LET k == FirstOf({j \in 1..Len(db) : MatchesMessage(db[j], cbs[i])})
          IN  DbAssigned(server) /\
              IF k = 0
              THEN /\ db' = db
                   /\ cbs' = [cbs EXCEPT ![i].pc = "emit", ![i].updated = TRUE,
                                         ![i].updates = cbs[i].updates + 1]
              ELSE /\ db' = [db EXCEPT ![k] = SetStatus(db[k], cbs[i].newStatus,
                                                        NewDate("callback_query", i))]
                   /\ cbs' = [cbs EXCEPT ![i].pc = "emit", ![i].updated = TRUE,
                                         ![i].updates = cbs[i].updates + 1,
                                         ![i].result = <<db'[k]>>]
       \/ /\ db' = db
          /\ cbs' = [cbs EXCEPT ![i] = CatchError([cbs[i] EXCEPT !.updates = cbs[i].updates + 1])]
    /\ UNCHANGED <<nextOid, channel, emitted, locs, dels>>
    /\ UNCHANGED <<clientVars, pureVars, sockets, httpVars>>

\* Lines 215-222: broadcast the updated document if there is one, call
\* answerCallbackQuery and await it (pc "answer").
CallbackEmit(i) ==
    /\ Running(server)
    /\ cbs[i].pc = "emit"
    /\ IF cbs[i].result # <<>>
       THEN emitted' = Append(emitted, <<"incident_updated", cbs[i].result[1]>>)
       ELSE emitted' = emitted
    /\ cbs' = [cbs EXCEPT ![i].pc = "answer",
                          ![i].emits = IF cbs[i].result # <<>> THEN 1 ELSE 0,
                          ![i].answers = <<StatusUpdated(cbs[i].newStatus)>>]
    /\ UNCHANGED <<db, nextOid, channel, locs, dels>>
    /\ UNCHANGED <<clientVars, pureVars, sockets, httpVars>>

\* The awaited answerCallbackQuery returns, and the handler ends, or rejects:
\* inside the try block (line 222) the catch block runs; at line 192, which
\* no try encloses, and at line 225, inside the catch block, the handler's
\* own promise rejects and nothing handles it (pc "rejected").
CallbackAnswered(i) ==
    /\ Running(server)
    /\ cbs[i].pc \in {"unknown", "answer", "catch"}
    /\ \/ /\ cbs' = [cbs EXCEPT ![i].pc = "done"]
          /\ server' = server
       \/ /\ cbs[i].pc = "answer"
          /\ cbs' = [cbs EXCEPT ![i] = CatchError(cbs[i])]
          /\ server' = server
       \/ /\ cbs[i].pc \in {"unknown", "catch"}
          /\ cbs' = [cbs EXCEPT ![i].pc = "rejected"]
          /\ server' = UnhandledRejection(server)
    /\ UNCHANGED <<db, nextOid, channel, emitted, locs, dels>>
    /\ UNCHANGED <<clientVars, pureVars, sockets, gets, unsent, forwardedIds, reading>>

\* ------------------------------------------- app.delete('/incidents/:id')

S_xyz == <<"x", "y", "z">>

\* Request paths: the hex string of an id, in lower and in upper case, and a
\* string that is no ObjectId.
IdStrings ==
    {ToHexString(o) : o \in 10..(10 + MaxOps)}
        \cup {UpperCase(ToHexString(o)) : o \in 10..(10 + MaxOps)}
        \cup {S_xyz}

\* new ObjectId(id) for each request path (lines 65 and 71), worked out once:
\* the id's value, or -1 where the constructor throws.
ObjectIds == [s \in IdStrings |-> IF ObjectIdValid(s) THEN ObjectIdOf(s) ELSE -1]

\* The paths requested: of every id generated so far and of the one generated
\* next, and the malformed one.
DeleteInputs == {s \in IdStrings : ObjectIds[s] <= nextOid}

\* found: findOne returned a document; failed: a store call threw.
DelHandler(id, pc, status, found, failed) ==
    [pc |-> pc, id |-> id, oid |-> ObjectIds[id], found |-> found,
     failed |-> failed, deletedCount |-> 0, status |-> status, emits |-> 0]

\* The filter { _id: new ObjectId(id) } of lines 65 and 71.
MatchesId(doc, oid) == doc._id = oid

\* Lines 61-65: new ObjectId(id) throws on a malformed id (caught at line
\* 95); findOne reads the collection and the handler awaits its result
\* (pc "notFound" when no document has the id).
DeleteReceived(id) ==
    /\ Running(server)
    /\ Ops < MaxOps
    /\ IF ObjectIds[id] < 0
       THEN dels' = Append(dels, DelHandler(id, "done", 500, FALSE, FALSE))
       ELSE \/ IF FirstOf({j \in 1..Len(db) : MatchesId(db[j], ObjectIds[id])}) = 0
                   THEN dels' = Append(dels, DelHandler(id, "notFound", 0, FALSE, FALSE))
                   ELSE dels' = Append(dels, DelHandler(id, "deleteOne", 0, TRUE, FALSE))
            \/ dels' = Append(dels, DelHandler(id, "done", 500, FALSE, TRUE))
    /\ UNCHANGED <<db, nextOid, channel, emitted, locs, cbs>>
    /\ UNCHANGED <<clientVars, pureVars, sockets, httpVars>>

\* Lines 66-69: findOne returned null, the handler answers 404.
DeleteNotFound(i) ==
    /\ Running(server)
    /\ dels[i].pc = "notFound"
    /\ dels' = [dels EXCEPT ![i].pc = "done", ![i].status = 404]
    /\ UNCHANGED <<db, nextOid, channel, emitted, locs, cbs>>
    /\ UNCHANGED <<clientVars, pureVars, sockets, httpVars>>

\* deleteOne (line 71) removes the document if it is still there.
DeleteDeleteOne(i) ==
    /\ Running(server)
    /\ dels[i].pc = "deleteOne"
    /\ \/ LET k == FirstOf({j \in 1..Len(db) : MatchesId(db[j], dels[i].oid)})
          IN  IF k = 0
              THEN /\ db' = db
                   /\ dels' = [dels EXCEPT ![i].pc = "respond", ![i].deletedCount = 0]
              ELSE /\ db' = RemoveAt(db, k)
                   /\ dels' = [dels EXCEPT ![i].pc = "respond", ![i].deletedCount = 1]
       \/ /\ db' = db
          /\ dels' = [dels EXCEPT ![i].pc = "done", ![i].status = 500,
                                  ![i].failed = TRUE]
    /\ UNCHANGED <<nextOid, channel, emitted, locs, cbs>>
    /\ UNCHANGED <<clientVars, pureVars, sockets, httpVars>>

\* Line 73: result.deletedCount === 1.
DeletedOneMutAlways(h) == h.deletedCount >= 0

DeletedOne(h) == h.deletedCount = 1

\* Lines 73-94: broadcast and answer 200 when the document was removed by
\* this request, 404 otherwise.
DeleteRespond(i) ==
    /\ Running(server)
    /\ dels[i].pc = "respond"
    /\ IF DeletedOne(dels[i])
       THEN /\ emitted' = Append(emitted, <<"incident_deleted", dels[i].id>>)
            /\ dels' = [dels EXCEPT ![i].pc = "done", ![i].status = 200, ![i].emits = 1]
       ELSE /\ emitted' = emitted
            /\ dels' = [dels EXCEPT ![i].pc = "done", ![i].status = 404]
    /\ UNCHANGED <<db, nextOid, channel, locs, cbs>>
    /\ UNCHANGED <<clientVars, pureVars, sockets, httpVars>>

\* ------------------------------------------------------ the server's runs

\* The store and the group chat outlive the process: it starts either on an
\* empty collection or on one that holds an incident reported in an earlier
\* run, with its two messages in the group.
EarlierIncident ==
    WithId(NewIncident(LocHandler(42, -25, 28, "done", "ack"), 2, GroupId), 10)

ServerInit ==
    /\ \/ /\ db = <<>>
          /\ nextOid = 10
          /\ channel = <<>>
       \/ /\ db = <<EarlierIncident>>
          /\ nextOid = 11
          /\ channel = <<LocationMessage(-25, 28), IncidentMessage(42, -25, 28)>>
    /\ emitted = <<>>
    /\ locs = <<>>
    /\ cbs = <<>>
    /\ dels = <<>>

TokenIdle ==
    /\ tokenIn = <<>>
    /\ tokenOut = <<>>

MergeIdle ==
    /\ mergeIn = <<>>
    /\ mergeOut = <<>>

NoSockets == sockets = <<>>

\* The process once startServer has run: connected to the store and
\* listening; no GET request answered yet.
Serving ==
    /\ server = [connected |-> TRUE, listening |-> TRUE, exited |-> FALSE]
    /\ gets = <<>>
    /\ unsent = <<>>
    /\ forwardedIds = {}
    /\ reading = FALSE

ClientIdle ==
    /\ displayedIncidentIds = {}
    /\ statusShown = <<>>
    /\ lastPollIncidents = <<>>
    /\ inbox = <<>>
    /\ fanout = TRUE
    /\ polls = <<>>
    /\ pollSteps = 0
    /\ deletedSeen = {}

Init == ServerInit /\ ClientIdle /\ TokenIdle /\ MergeIdle /\ NoSockets /\ Serving

Next ==
    \/ \E from \in Reporters, loc \in LocationInputs : LocationReceived(from, loc[1], loc[2])
    \/ \E i \in 1..Len(locs) : LocationSendMessage(i)
    \/ \E i \in 1..Len(locs) : LocationInsert(i)
    \/ \E i \in 1..Len(locs) : LocationEmit(i)
    \/ \E i \in 1..Len(locs) : LocationAckSettled(i)
    \/ \E m \in 1..Len(channel), data \in TokenInputs : CallbackReceived(m, data)
    \/ \E i \in 1..Len(cbs) : CallbackEdit(i)
    \/ \E i \in 1..Len(cbs) : CallbackUpdate(i)
    \/ \E i \in 1..Len(cbs) : CallbackEmit(i)
    \/ \E i \in 1..Len(cbs) : CallbackAnswered(i)
    \/ \E id \in DeleteInputs : DeleteReceived(id)
    \/ \E i \in 1..Len(dels) : DeleteNotFound(i)
    \/ \E i \in 1..Len(dels) : DeleteDeleteOne(i)
    \/ \E i \in 1..Len(dels) : DeleteRespond(i)

Spec == Init /\ [][Next]_vars

\* The runs in which every handler gets to finish: one report, the three
\* kinds of token, requests for the ids in the store.
LiveLocationInputs == {<<-25, 28>>}

LiveTokenInputs ==
    { S_tow \o US \o S_eagles \o US \o S_42,
      S_scene \o US \o S_cleared \o US \o S_42,
      S_bogus \o US \o S_token \o US \o S_1 }

LiveDeleteInputs == {s \in DeleteInputs : ObjectIds[s] >= 0 /\ ToHexString(ObjectIds[s]) = s}

LiveNext ==
    \/ \E from \in Reporters, loc \in LiveLocationInputs :
          LocationReceived(from, loc[1], loc[2])
    \/ \E i \in 1..Len(locs) : LocationSendMessage(i)
    \/ \E i \in 1..Len(locs) : LocationInsert(i)
    \/ \E i \in 1..Len(locs) : LocationEmit(i)
    \/ \E i \in 1..Len(locs) : LocationAckSettled(i)
    \/ \E m \in 1..Len(channel), data \in LiveTokenInputs : CallbackReceived(m, data)
    \/ \E i \in 1..Len(cbs) : CallbackEdit(i)
    \/ \E i \in 1..Len(cbs) : CallbackUpdate(i)
    \/ \E i \in 1..Len(cbs) : CallbackEmit(i)
    \/ \E i \in 1..Len(cbs) : CallbackAnswered(i)
    \/ \E id \in LiveDeleteInputs : DeleteReceived(id)
    \/ \E i \in 1..Len(dels) : DeleteNotFound(i)
    \/ \E i \in 1..Len(dels) : DeleteDeleteOne(i)
    \/ \E i \in 1..Len(dels) : DeleteRespond(i)

\* Every external call (channel send or edit, store read or write) returns or
\* fails in the end, and the event loop then runs the handler that awaited
\* it: a handler that can take its next step does take it.
Fairness ==
    /\ WF_vars(\E i \in 1..Len(locs) : LocationSendMessage(i))
    /\ WF_vars(\E i \in 1..Len(locs) : LocationInsert(i))
    /\ WF_vars(\E i \in 1..Len(locs) : LocationEmit(i))
    /\ WF_vars(\E i \in 1..Len(cbs) : CallbackEdit(i))
    /\ WF_vars(\E i \in 1..Len(cbs) : CallbackUpdate(i))
    /\ WF_vars(\E i \in 1..Len(cbs) : CallbackEmit(i))
    /\ WF_vars(\E i \in 1..Len(cbs) : CallbackAnswered(i))
    /\ WF_vars(\E i \in 1..Len(dels) : DeleteNotFound(i))
    /\ WF_vars(\E i \in 1..Len(dels) : DeleteDeleteOne(i))
    /\ WF_vars(\E i \in 1..Len(dels) : DeleteRespond(i))

SpecLive == Init /\ [][LiveNext]_vars /\ Fairness

\* ------------------------------------------ public/script.js, the viewer

\* A document as JSON carries it (res.json, socket.io): the ObjectId becomes
\* its hex string.
Wire(doc) ==
    [_id |-> ToHexString(doc._id), reporter_id |-> doc.reporter_id,
     reporter_name |-> doc.reporter_name,
     latitude |-> doc.latitude, longitude |-> doc.longitude, status |-> doc.status,
     telegram_message_id |-> doc.telegram_message_id,
     telegram_chat_id |-> doc.telegram_chat_id,
     timestamp |-> doc.timestamp, last_updated |-> doc.last_updated]

WireAll(coll) == [i \in 1..Len(coll) |-> Wire(coll[i])]

IdsOf(incidents) == {incidents[i]._id : i \in 1..Len(incidents)}

\* The local view: the ids on display (the set displayedIncidentIds; in the
\* push-only viewer the keys of markers) and the list items of incident-list,
\* first item first, each with the id it was made for and the status its
\* span shows.
View(displayed, shown) == [displayed |-> displayed, shown |-> shown]

ListItem(incident) == [id |-> incident._id, status |-> incident.status]

\* document.getElementById: the first element with the id, 0 for null.
GetElementById(shown, id) == FirstOf({j \in 1..Len(shown) : shown[j].id = id})

\* updateIncidentStatusInList (script.js lines 84-94).
UpdateIncidentStatusInList(view, incident) ==
    LET k == GetElementById(view.shown, incident._id)
    IN  IF k # 0
        THEN [view EXCEPT !.shown[k].status = incident.status]
        ELSE view

\* addIncidentToMapAndList (script.js lines 26-66): an incident already on
\* display has its status refreshed, any other gets a list item on top.
AddIncidentToMapAndListMutNoGuard(view, incident) ==
    View(view.displayed \cup {incident._id}, <<ListItem(incident)>> \o view.shown)

AddIncidentToMapAndList(view, incident) ==
    IF incident._id \in view.displayed
    THEN UpdateIncidentStatusInList(view, incident)
    ELSE View(view.displayed \cup {incident._id}, <<ListItem(incident)>> \o view.shown)

\* removeIncidentFromMapAndList (script.js lines 68-82).
RemoveIncidentFromMapAndList(view, incidentId) ==
    LET k == GetElementById(view.shown, incidentId)
    IN  View(view.displayed \ {incidentId},
             IF k # 0 THEN RemoveAt(view.shown, k) ELSE view.shown)

\* addIncidentToMapAndList of the push-only viewer (lines 21-48): an incident
\* that has a marker is skipped.
PushAddIncidentToMapAndList(view, incident) ==
    IF incident._id \in view.displayed
    THEN view
    ELSE View(view.displayed \cup {incident._id}, <<ListItem(incident)>> \o view.shown)

\* removeIncidentFromMapAndList of the push-only viewer (lines 50-63).
PushRemoveIncidentFromMapAndList(view, incidentId) ==
    LET k == GetElementById(view.shown, incidentId)
    IN  View(view.displayed \ {incidentId},
             IF k # 0 THEN RemoveAt(view.shown, k) ELSE view.shown)

\* The socket listeners of the push-only viewer (lines 99-123).
RECURSIVE PushAddEach(_, _, _)
PushAddEach(view, incidents, i) ==
    IF i > Len(incidents) THEN view
    ELSE PushAddEach(PushAddIncidentToMapAndList(view, incidents[i]), incidents, i + 1)

\* Object.keys(markers).forEach(id => removeIncidentFromMapAndList(id))
\* (line 102).
RECURSIVE PushRemoveAll(_)
PushRemoveAll(view) ==
    IF view.displayed = {} THEN view
    ELSE PushRemoveAll(PushRemoveIncidentFromMapAndList(view,
                           CHOOSE id \in view.displayed : TRUE))

PushSocketEvent(view, event, payload) ==
    CASE event = "initial_incidents" -> PushAddEach(PushRemoveAll(view), payload, 1)
      [] event = "new_incident" -> PushAddIncidentToMapAndList(view, payload)
      [] event = "incident_deleted" -> PushRemoveIncidentFromMapAndList(view, payload)
      [] event = "incident_updated" -> UpdateIncidentStatusInList(view, payload)

\* The view of a push-only viewer that started empty and has handled the
\* first n events sent on its connection, in the order sent.
RECURSIVE PushViewAfter(_, _)
PushViewAfter(received, n) ==
    IF n = 0 THEN View({}, <<>>)
    ELSE PushSocketEvent(PushViewAfter(received, n - 1), received[n][1], received[n][2])

RECURSIVE AddEach(_, _, _)
AddEach(view, incidents, i) ==
    IF i > Len(incidents) THEN view
    ELSE AddEach(AddIncidentToMapAndList(view, incidents[i]), incidents, i + 1)

RECURSIVE RemoveEach(_, _, _)
RemoveEach(view, incidents, i) ==
    IF i > Len(incidents) THEN view
    ELSE RemoveEach(RemoveIncidentFromMapAndList(view, incidents[i]._id), incidents, i + 1)

\* The body of fetchNewIncidents once the response is in (lines 128-146):
\* add what is not displayed, remove what the previous poll held and this
\* one does not.
Reconciled(view, last, currentIncidents) ==
    LET NotDisplayed(inc) == inc._id \notin view.displayed
        Gone(inc) == inc._id \notin IdsOf(currentIncidents)
        newIncidents == SelectSeq(currentIncidents, NotDisplayed)
        deletedIncidentsInPoll == SelectSeq(last, Gone)
    IN  RemoveEach(AddEach(view, newIncidents, 1), deletedIncidentsInPoll, 1)

ClientView == View(displayedIncidentIds, statusShown)

SetView(view) ==
    /\ displayedIncidentIds' = view.displayed
    /\ statusShown' = view.shown

\* fetch('/incidents') (line 124) is answered with the collection as it is
\* when the server reads it (server.js lines 51-52); a failed request or a
\* response that is not ok leaves the client as it was (lines 125-127, 150).
FetchIncidents ==
    /\ pollSteps < MaxPollSteps
    /\ pollSteps' = pollSteps + 1
    /\ \/ polls' = Append(polls, [incidents |-> WireAll(db), readAt |-> nextOid])
       \/ polls' = polls
    /\ UNCHANGED <<displayedIncidentIds, statusShown, lastPollIncidents, deletedSeen, inbox, fanout>>
    /\ UNCHANGED <<serverVars, pureVars, sockets, httpVars>>

\* A response arrives and the rest of fetchNewIncidents runs (lines 128-148).
FetchProcessed(k) ==
    /\ k \in 1..Len(polls)
    /\ SetView(Reconciled(ClientView, lastPollIncidents, polls[k].incidents))
    /\ lastPollIncidents' = polls[k].incidents
    /\ polls' = RemoveAt(polls, k)
    /\ UNCHANGED <<inbox, fanout, pollSteps, deletedSeen>>
    /\ UNCHANGED <<serverVars, pureVars, sockets, httpVars>>

\* The socket handlers (lines 168-188), run on the oldest undelivered event.
SocketEvent ==
    /\ inbox # <<>>
    /\ LET event == inbox[1][1]
           payload == inbox[1][2]
       IN  CASE event = "initial_incidents" ->
                    /\ SetView(AddEach(ClientView, payload, 1))
                    /\ lastPollIncidents' = payload
              [] event = "new_incident" ->
                    /\ SetView(AddIncidentToMapAndList(ClientView, payload))
                    /\ lastPollIncidents' = lastPollIncidents
              [] event = "incident_deleted" ->
                    /\ SetView(RemoveIncidentFromMapAndList(ClientView, payload))
                    /\ lastPollIncidents' = lastPollIncidents
              [] event = "incident_updated" ->
                    /\ SetView(UpdateIncidentStatusInList(ClientView, payload))
                    /\ lastPollIncidents' = lastPollIncidents
    /\ deletedSeen' = IF inbox[1][1] = "incident_deleted"
                      THEN deletedSeen \cup {inbox[1][2]}
                      ELSE deletedSeen
    /\ inbox' = Tail(inbox)
    /\ UNCHANGED <<fanout, polls, pollSteps>>
    /\ UNCHANGED <<serverVars, pureVars, sockets, httpVars>>

\* socket.io hands an event to a socket that is connected and drops it for
\* one that is not.
Deliver(socket, event, payload) ==
    IF socket.connected
    THEN [socket EXCEPT !.received = Append(socket.received, <<event, payload>>)]
    ELSE socket

\* io.emit reaches every socket that is connected: the polling client's, and
\* the connections of SpecConn.
Broadcast(event, payload) ==
    /\ IF fanout THEN inbox' = Append(inbox, <<event, payload>>) ELSE inbox' = inbox
    /\ sockets' = [i \in 1..Len(sockets) |-> Deliver(sockets[i], event, payload)]

\* A handler between its store call and its emit: the event it will emit,
\* the payload it holds, and whether it emits to all sockets (io.emit) or to
\* the socket of its connection (socket.emit).
Unsent(event, payload, to) == [event |-> event, payload |-> payload, to |-> to]

\* The message ids the group chat can have returned at line 134 to the
\* handlers whose reports are stored: the chat numbers its messages 1, 2,
\* 3, ... as they are sent, by whichever handler, and each of these handlers
\* sent its location message (line 131) before its text: the k-th lowest of
\* the ids is 2k at least.
MessageIdsPossible(ids) ==
    \A m \in ids : 2 * Cardinality({n \in ids : n <= m}) <= m

\* The location handler up to the outcome of insertOne (server.js lines
\* 129-155), seen from the client: the incident is stored with the id m of
\* the handler's group message and the handler awaits, or insertOne fails
\* and nothing is stored (lines 164-167). Handlers run interleaved, and some
\* fail after sending: m is any id the chat can have given this handler.
StoreCreated(m) ==
    /\ pollSteps < MaxPollSteps
    /\ pollSteps' = pollSteps + 1
    /\ m \in 2..MaxMessageId
    /\ m \notin forwardedIds
    /\ MessageIdsPossible(forwardedIds \cup {m})
    /\ \/ LET doc == WithId(NewIncident(LocHandler(42, -25, 28, "insert", "none"),
                                        m, GroupId), nextOid)
          IN  /\ db' = Append(db, doc)
              /\ nextOid' = nextOid + 1
              /\ unsent' = Append(unsent, Unsent("new_incident", Wire(doc), "all"))
              /\ forwardedIds' = forwardedIds \cup {m}
       \/ UNCHANGED <<db, nextOid, unsent, forwardedIds>>
    /\ UNCHANGED <<channel, emitted, locs, cbs, dels>>
    /\ UNCHANGED <<displayedIncidentIds, statusShown, lastPollIncidents, deletedSeen,
                   inbox, fanout, polls>>
    /\ UNCHANGED <<pureVars, sockets, server, gets, reading>>

\* The ways a request path can spell the id of a stored incident: the hex
\* string in lower case and in upper case (new ObjectId accepts both).
SpellingsOf(oid) == {ToHexString(oid), UpperCase(ToHexString(oid))}

\* DELETE /incidents/:id up to the outcome of deleteOne (server.js lines
\* 61-71): the incident is removed and the handler awaits; it will emit the
\* id as the request spelled it (line 75).
StoreDeleted(k, id) ==
    /\ pollSteps < MaxPollSteps
    /\ pollSteps' = pollSteps + 1
    /\ k \in 1..Len(db)
    /\ id \in SpellingsOf(db[k]._id)
    /\ db' = RemoveAt(db, k)
    /\ unsent' = Append(unsent, Unsent("incident_deleted", id, "all"))
    /\ UNCHANGED <<nextOid, channel, emitted, locs, cbs, dels>>
    /\ UNCHANGED <<displayedIncidentIds, statusShown, lastPollIncidents, deletedSeen,
                   inbox, fanout, polls>>
    /\ UNCHANGED <<pureVars, sockets, server, gets, forwardedIds, reading>>

\* The callback handler up to the outcome of findOneAndUpdate (server.js
\* lines 171-213): the status is set, whatever it was, and the handler
\* awaits with the document as updated.
StoreUpdated(k, status) ==
    /\ pollSteps < MaxPollSteps
    /\ pollSteps' = pollSteps + 1
    /\ k \in 1..Len(db)
    /\ db' = [db EXCEPT ![k] = SetStatus(db[k], status, NewDate("callback_query", 0))]
    /\ unsent' = Append(unsent, Unsent("incident_updated", Wire(db'[k]), "all"))
    /\ UNCHANGED <<nextOid, channel, emitted, locs, cbs, dels>>
    /\ UNCHANGED <<displayedIncidentIds, statusShown, lastPollIncidents, deletedSeen,
                   inbox, fanout, polls>>
    /\ UNCHANGED <<pureVars, sockets, server, gets, forwardedIds, reading>>

\* A handler resumes and emits (server.js lines 162, 75, 217: io.emit; line
\* 239: socket.emit to the polling client's socket).
StoreEmit(n) ==
    /\ n \in 1..Len(unsent)
    /\ IF unsent[n].to = "all"
       THEN Broadcast(unsent[n].event, unsent[n].payload)
       ELSE /\ inbox' = Append(inbox, <<unsent[n].event, unsent[n].payload>>)
            /\ sockets' = sockets
    /\ unsent' = RemoveAt(unsent, n)
    /\ UNCHANGED <<displayedIncidentIds, statusShown, lastPollIncidents, deletedSeen,
                   fanout, polls, pollSteps>>
    /\ UNCHANGED <<serverVars, pureVars, server, gets, forwardedIds, reading>>

\* What is left to emit once the client's socket has closed: socket.emit on
\* the closed socket reaches nobody.
ToAll(u) == u.to = "all"

\* The socket drops: events emitted from now on do not reach the client,
\* nor does what its connection handler is still to send.
SocketDisconnected ==
    /\ pollSteps < MaxPollSteps
    /\ pollSteps' = pollSteps + 1
    /\ fanout
    /\ fanout' = FALSE
    /\ unsent' = SelectSeq(unsent, ToAll)
    /\ reading' = FALSE
    /\ UNCHANGED <<displayedIncidentIds, statusShown, lastPollIncidents, deletedSeen, inbox, polls>>
    /\ UNCHANGED <<serverVars, pureVars, sockets, server, gets, forwardedIds>>

\* The socket reconnects and from now on receives what io.emit sends; the
\* connection handler (server.js lines 234-238) calls find and awaits.
SocketConnected ==
    /\ pollSteps < MaxPollSteps
    /\ pollSteps' = pollSteps + 1
    /\ ~fanout
    /\ fanout' = TRUE
    /\ reading' = TRUE
    /\ UNCHANGED <<displayedIncidentIds, statusShown, lastPollIncidents, deletedSeen, inbox, polls>>
    /\ UNCHANGED <<serverVars, pureVars, sockets, server, gets, unsent, forwardedIds>>

\* find({}).toArray() of the connection handler (line 238) reads the
\* collection as it is now and the handler awaits with the result, or the
\* read fails and the handler only logs (lines 240-242).
SocketFind ==
    /\ reading
    /\ reading' = FALSE
    /\ \/ unsent' = Append(unsent, Unsent("initial_incidents", WireAll(db), "socket"))
       \/ unsent' = unsent
    /\ UNCHANGED <<serverVars, clientVars, pureVars, sockets, server, gets, forwardedIds>>

PollInit ==
    /\ db = <<>>
    /\ nextOid = 10
    /\ channel = <<>>
    /\ emitted = <<>>
    /\ locs = <<>>
    /\ cbs = <<>>
    /\ dels = <<>>
    /\ ClientIdle
    /\ TokenIdle
    /\ MergeIdle
    /\ NoSockets
    /\ Serving

PollNext ==
    \/ FetchIncidents
    \/ \E k \in 1..Len(polls) : FetchProcessed(k)
    \/ SocketEvent
    \/ \E m \in 2..MaxMessageId : StoreCreated(m)
    \/ \E k \in 1..Len(db) : \E id \in SpellingsOf(db[k]._id) : StoreDeleted(k, id)
    \/ \E k \in 1..Len(db) : StoreUpdated(k, "Scene Cleared")
    \/ \E n \in 1..Len(unsent) : StoreEmit(n)
    \/ SocketDisconnected
    \/ SocketConnected
    \/ SocketFind

SpecPoll == PollInit /\ [][PollNext]_vars

\* ------------------------------------------------ io.on('connection')

\* A connection as the server holds it: the socket, the connection handler's
\* position and its local initialIncidents, and what the viewer at the other
\* end has been sent.
Socket(pc) ==
    [connected |-> TRUE, pc |-> pc, initialIncidents |-> <<>>, failed |-> FALSE,
     received |-> <<>>]

\* A viewer connects; the handler runs to its await (server.js lines 234-238).
ViewerConnected ==
    /\ pollSteps < MaxConnSteps
    /\ pollSteps' = pollSteps + 1
    /\ sockets' = Append(sockets, Socket("find"))
    /\ UNCHANGED <<displayedIncidentIds, statusShown, lastPollIncidents, deletedSeen,
                   inbox,                   fanout, polls>>
    /\ UNCHANGED <<serverVars, pureVars, httpVars>>

\* find({}).toArray() (line 238) returns the collection as it is, or throws
\* and the catch block (line 241) logs.
ConnectionFind(i) ==
    /\ sockets[i].pc = "find"
    /\ \/ sockets' = [sockets EXCEPT ![i].pc = "emit", ![i].initialIncidents = db]
       \/ sockets' = [sockets EXCEPT ![i].pc = "done", ![i].failed = TRUE]
    /\ UNCHANGED <<serverVars, clientVars, pureVars, httpVars>>

\* The sockets that socket.emit of connection i (line 239) sends to.
InitialRecipientsMutAll(i) == 1..Len(sockets)

InitialRecipients(i) == {i}

\* socket.emit('initial_incidents', initialIncidents) (line 239).
ConnectionEmit(i) ==
    /\ sockets[i].pc = "emit"
    /\ sockets' = [j \in 1..Len(sockets) |->
            LET sent == IF j \in InitialRecipients(i)
                        THEN Deliver(sockets[j], "initial_incidents",
                                     WireAll(sockets[i].initialIncidents))
                        ELSE sockets[j]
            IN  IF j = i THEN [sent EXCEPT !.pc = "done"] ELSE sent]
    /\ UNCHANGED <<serverVars, clientVars, pureVars, httpVars>>

\* The viewer goes away (lines 244-246).
ViewerDisconnected(i) ==
    /\ pollSteps < MaxConnSteps
    /\ pollSteps' = pollSteps + 1
    /\ sockets[i].connected
    /\ sockets' = [sockets EXCEPT ![i].connected = FALSE]
    /\ UNCHANGED <<displayedIncidentIds, statusShown, lastPollIncidents, deletedSeen,
                   inbox,                   fanout, polls>>
    /\ UNCHANGED <<serverVars, pureVars, httpVars>>

\* The server with no polling client attached to it.
ConnInit ==
    /\ db = <<>>
    /\ nextOid = 10
    /\ channel = <<>>
    /\ emitted = <<>>
    /\ locs = <<>>
    /\ cbs = <<>>
    /\ dels = <<>>
    /\ displayedIncidentIds = {}
    /\ statusShown = <<>>
    /\ lastPollIncidents = <<>>
    /\ inbox = <<>>
    /\ fanout = FALSE
    /\ polls = <<>>
    /\ pollSteps = 0
    /\ deletedSeen = {}
    /\ TokenIdle
    /\ MergeIdle
    /\ NoSockets
    /\ Serving

ConnNext ==
    \/ ViewerConnected
    \/ \E i \in 1..Len(sockets) : ConnectionFind(i)
    \/ \E i \in 1..Len(sockets) : ConnectionEmit(i)
    \/ \E i \in 1..Len(sockets) : ViewerDisconnected(i)
    \/ \E m \in 2..MaxMessageId : pollSteps < MaxConnSteps /\ StoreCreated(m)
    \/ \E k \in 1..Len(db) : \E id \in SpellingsOf(db[k]._id) :
          pollSteps < MaxConnSteps /\ StoreDeleted(k, id)
    \/ \E k \in 1..Len(db) : pollSteps < MaxConnSteps /\ StoreUpdated(k, "Scene Cleared")
    \/ \E n \in 1..Len(unsent) : StoreEmit(n)

SpecConn == ConnInit /\ [][ConnNext]_vars

\* ------------------------------------------- startServer and app.get
\* The process from its first line: the bot polls Telegram from its
\* construction (line 25), startServer (lines 250-259) connects to the store
\* and only then listens.

Listening(process) == process.listening /\ ~process.exited

\* connectToMongo (lines 30-40): client.connect() resolves and the handle is
\* assigned, or it rejects and the catch block ends the process (line 38).
ConnectToMongo ==
    /\ Running(server)
    /\ ~server.connected
    /\ \/ server' = [server EXCEPT !.connected = TRUE]
       \/ server' = [server EXCEPT !.exited = TRUE]
    /\ UNCHANGED <<serverVars, clientVars, pureVars, sockets, gets, unsent, forwardedIds, reading>>

\* Line 251: startServer awaits connectToMongo before it goes on to
\* server.listen (line 252).
MayListenMutNoAwait(process) == TRUE

MayListen(process) == process.connected

\* server.listen (line 252) binds the port and the server listens, or the
\* bind fails: the server emits 'error', nothing listens for it (the call
\* sits in no try block and no 'error' listener is registered), and the
\* exception ends the process, connected and never listening.
Listen ==
    /\ Running(server)
    /\ ~server.listening
    /\ MayListen(server)
    /\ \/ server' = [server EXCEPT !.listening = TRUE]
       \/ server' = [server EXCEPT !.exited = TRUE]
    /\ UNCHANGED <<serverVars, clientVars, pureVars, sockets, gets, unsent, forwardedIds, reading>>

\* app.get('/incidents') (lines 49-57): the whole collection as JSON, or 500
\* with a message when the read throws.
GetFailedMutOk(h) == [h EXCEPT !.pc = "done", !.status = 200]

GetFailed(h) ==
    [h EXCEPT !.pc = "done", !.status = 500, !.body = <<"Error fetching incidents.">>]

\* incidents: what find({}).toArray() read; failed: the call threw.
GetHandler(incidents, failed) ==
    [pc |-> "respond", incidents |-> incidents, failed |-> failed,
     status |-> 0, body |-> <<>>]

\* A request arrives; find({}).toArray() (line 51) reads the collection as it
\* is, or fails, and the handler awaits the outcome.
GetIncidents ==
    /\ Running(server)
    /\ Ops < MaxOps
    /\ \/ gets' = Append(gets, GetHandler(WireAll(db), FALSE))
       \/ gets' = Append(gets, GetHandler(<<>>, TRUE))
    /\ UNCHANGED <<serverVars, clientVars, pureVars, sockets, server, unsent, forwardedIds, reading>>

\* The handler resumes: res.json(incidents) (line 52), or the catch block's
\* 500 (line 55).
GetRespond(i) ==
    /\ Running(server)
    /\ gets[i].pc = "respond"
    /\ IF gets[i].failed
       THEN gets' = [gets EXCEPT ![i] = GetFailed(gets[i])]
       ELSE gets' = [gets EXCEPT ![i].pc = "done", ![i].status = 200,
                                 ![i].body = gets[i].incidents]
    /\ UNCHANGED <<serverVars, clientVars, pureVars, sockets, server, unsent, forwardedIds, reading>>

StartInit ==
    /\ ServerInit
    /\ ClientIdle
    /\ TokenIdle
    /\ MergeIdle
    /\ NoSockets
    /\ server = [connected |-> FALSE, listening |-> FALSE, exited |-> FALSE]
    /\ gets = <<>>
    /\ unsent = <<>>
    /\ forwardedIds = {}
    /\ reading = FALSE

\* Telegram updates are handled while the process runs; HTTP requests are
\* accepted once it listens.
StartNext ==
    \/ ConnectToMongo
    \/ Listen
    \/ Listening(server) /\ GetIncidents
    \/ \E i \in 1..Len(gets) : GetRespond(i)
    \/ \E from \in Reporters, loc \in LiveLocationInputs :
          Running(server) /\ LocationReceived(from, loc[1], loc[2])
    \/ \E i \in 1..Len(locs) : Running(server) /\ LocationSendMessage(i)
    \/ \E i \in 1..Len(locs) : Running(server) /\ LocationInsert(i)
    \/ \E i \in 1..Len(locs) : Running(server) /\ LocationEmit(i)
    \/ \E i \in 1..Len(locs) : LocationAckSettled(i)
    \/ \E m \in 1..Len(channel), data \in LiveTokenInputs :
          Running(server) /\ CallbackReceived(m, data)
    \/ \E i \in 1..Len(cbs) : Running(server) /\ CallbackEdit(i)
    \/ \E i \in 1..Len(cbs) : Running(server) /\ CallbackUpdate(i)
    \/ \E i \in 1..Len(cbs) : Running(server) /\ CallbackEmit(i)
    \/ \E i \in 1..Len(cbs) : Running(server) /\ CallbackAnswered(i)
    \/ \E id \in LiveDeleteInputs : Listening(server) /\ DeleteReceived(id)
    \/ \E i \in 1..Len(dels) : Running(server) /\ DeleteNotFound(i)
    \/ \E i \in 1..Len(dels) : Running(server) /\ DeleteDeleteOne(i)
    \/ \E i \in 1..Len(dels) : Running(server) /\ DeleteRespond(i)

SpecStart == StartInit /\ [][StartNext]_vars

\* --------------------------------------- the token mapping on its own

\* What lines 178-194 compute from callback data: the new status, whether
\* the buttons go, and whether the handler answers "Unknown action.".
ResolveMutActor(data) ==
    [newStatus |-> IF At(Split(data, "_"), 2) = S_1 /\ ActionOf(data) = S_tow
                   THEN "Tow Requested: Other"
                   ELSE NewStatus(ActionOf(data), TypeOf(data)),
     removeButtons |-> RemoveButtons(ActionOf(data), TypeOf(data)),
     rejected |-> NewStatus(ActionOf(data), TypeOf(data)) = ""]

Resolve(data) ==
    [newStatus |-> NewStatus(ActionOf(data), TypeOf(data)),
     removeButtons |-> RemoveButtons(ActionOf(data), TypeOf(data)),
     rejected |-> NewStatus(ActionOf(data), TypeOf(data)) = ""]

TokenVerbs == {S_tow, S_scene, S_bogus, S_cleared, <<>>}
TokenQualifiers == {S_eagles, S_other, S_cleared, S_token, <<>>}
TokenActors == {S_42, S_1}

\* Callback data of one, two and three underscore-delimited parts.
TokenSpace ==
    {v \o US \o q \o US \o a : v \in TokenVerbs, q \in TokenQualifiers, a \in TokenActors}
        \cup {v \o US \o q : v \in TokenVerbs, q \in TokenQualifiers}
        \cup TokenVerbs

TokenInit ==
    /\ tokenIn \in TokenSpace
    /\ tokenOut = <<>>
    /\ db = <<>>
    /\ nextOid = 10
    /\ channel = <<>>
    /\ emitted = <<>>
    /\ locs = <<>>
    /\ cbs = <<>>
    /\ dels = <<>>
    /\ ClientIdle
    /\ MergeIdle
    /\ NoSockets
    /\ Serving

ResolveToken ==
    /\ tokenOut = <<>>
    /\ tokenOut' = <<Resolve(tokenIn)>>
    /\ UNCHANGED <<tokenIn, mergeVars, serverVars, clientVars, sockets, httpVars>>

TokenNext == ResolveToken

SpecToken == TokenInit /\ [][TokenNext]_vars

\* ------------------------------------- the viewers' merge logic on its own

MergeIds == {ToHexString(10), ToHexString(11)}
MergeStatuses == {"active", "Scene Cleared"}
MergeItems == [id : MergeIds, status : MergeStatuses]

\* Local views a viewer can hold: every id on display has one list item.
MergeViews ==
    {View({}, <<>>)}
        \cup {View({a.id}, <<a>>) : a \in MergeItems}
        \cup {View({ab[1].id, ab[2].id}, ab) :
                  ab \in {x \in MergeItems \X MergeItems : x[1].id # x[2].id}}

\* An incident record as an event or a poll carries it.
MergeIncident(id, status) ==
    [Wire(EarlierIncident) EXCEPT !._id = id, !.status = status]

MergeIncidents == {MergeIncident(it.id, it.status) : it \in MergeItems}

MergeInit ==
    /\ mergeIn \in [viewer : {"polling", "push"}, op : {"add", "remove"},
                     view : MergeViews, incident : MergeIncidents]
    /\ mergeOut = <<>>
    /\ db = <<>>
    /\ nextOid = 10
    /\ channel = <<>>
    /\ emitted = <<>>
    /\ locs = <<>>
    /\ cbs = <<>>
    /\ dels = <<>>
    /\ ClientIdle
    /\ TokenIdle
    /\ NoSockets
    /\ Serving

\* The view the next application starts from.
MergeView == IF mergeOut = <<>> THEN mergeIn.view ELSE mergeOut[Len(mergeOut)]

\* The add is applied (again): the new_incident handler of either viewer.
MergeAdd ==
    /\ mergeIn.op = "add"
    /\ Len(mergeOut) < 2
    /\ mergeOut' = Append(mergeOut,
            IF mergeIn.viewer = "polling"
            THEN AddIncidentToMapAndList(MergeView, mergeIn.incident)
            ELSE PushAddIncidentToMapAndList(MergeView, mergeIn.incident))
    /\ UNCHANGED <<mergeIn, tokenVars, serverVars, clientVars, sockets, httpVars>>

\* The remove is applied (again): the incident_deleted handler.
MergeRemove ==
    /\ mergeIn.op = "remove"
    /\ Len(mergeOut) < 2
    /\ mergeOut' = Append(mergeOut,
            IF mergeIn.viewer = "polling"
            THEN RemoveIncidentFromMapAndList(MergeView, mergeIn.incident._id)
            ELSE PushRemoveIncidentFromMapAndList(MergeView, mergeIn.incident._id))
    /\ UNCHANGED <<mergeIn, tokenVars, serverVars, clientVars, sockets, httpVars>>

MergeNext == MergeAdd \/ MergeRemove

SpecMerge == MergeInit /\ [][MergeNext]_vars

\* ================================================================ claims

\* The parts of an action token as the specification names them.
TokenParts(data) == Split(data, "_")
Verb(data) == TokenParts(data)[1]
Qualifier(data) == IF Len(TokenParts(data)) >= 2 THEN TokenParts(data)[2] ELSE Undefined

\* A verb/qualifier pair the specification does not recognise.
Unrecognised(data) ==
    \/ Verb(data) \notin {S_tow, S_scene}
    \/ Verb(data) = S_scene /\ Qualifier(data) # S_cleared

ToldUpdated(h) == \E k \in 1..Len(h.answers) : h.answers[k] = StatusUpdated(h.newStatus)

ValidLocation(lat, lon) == lat >= -90 /\ lat <= 90 /\ lon >= -180 /\ lon <= 180

\* The ingestion that sent message m has yet to store its incident.
IngestPending(m) == \E i \in 1..Len(locs) : locs[i].forwarded = m /\ locs[i].pc = "insert"

\* C1: a resolve-action with a well-formed token whose (channel id, message
\* id) pair matches no stored incident reports a rejection and mutates nothing: the channel message is
\* not edited, no incident_updated is emitted and the actor is not told that
\* the status was updated.
C1_NotFoundRejected ==
    \A i \in 1..Len(cbs) :
        (cbs[i].pc = "done" /\ cbs[i].updated /\ cbs[i].result = <<>>
            /\ Len(TokenParts(cbs[i].data)) = 3
            /\ ~IngestPending(cbs[i].message_id))
            => /\ ~cbs[i].edited
               /\ cbs[i].emits = 0
               /\ cbs[i].answers # <<>>
               /\ ~ToldUpdated(cbs[i])

\* The store is as it was when this response was read from it (a creation
\* moves nextOid, a deletion or an update changes the listing for good).
Current(response) == response.incidents = WireAll(db) /\ response.readAt = nextOid

\* C2: a successful run of fetchNewIncidents that fetches after the store
\* mutations (its snapshot is read from the store as it is now), with no
\* socket event waiting for the client, still to be emitted or still to be
\* read for, leaves the displayed ids equal to the ids of that snapshot,
\* whatever the local view was before.
C2_PollConverges ==
    [][\A k \in 1..Len(polls) :
          (polls' = RemoveAt(polls, k) /\ lastPollIncidents' = polls[k].incidents
              /\ Current(polls[k]) /\ inbox = <<>> /\ unsent = <<>> /\ ~reading)
            => displayedIncidentIds' = IdsOf(polls[k].incidents)]_vars

\* A resolution that has edited the channel message and has not yet fanned
\* out (or given up).
MidSequence(h) == h.pc \in {"update", "emit"}

\* C3: resolutions on the same channel message are serialized: never are two
\* of them between their channel edit and their fan-out at the same time.
C3_SerializedPerIncident ==
    \A i, j \in 1..Len(cbs) :
        (i # j /\ cbs[i].message_id = cbs[j].message_id)
            => ~(MidSequence(cbs[i]) /\ MidSequence(cbs[j]))

Acknowledged(h) == h.pc = "done" /\ h.reply = "ack"

InsertedBy(oid) == {i \in 1..Len(locs) : locs[i].inserted # <<>> /\ locs[i].inserted[1]._id = oid}

\* C4: every ingestion of a valid (lat, lon) report that runs to its
\* acknowledgement has persisted exactly one incident, with status active and
\* the message id and chat id of the companion message it sent; an ingestion
\* that failed has persisted none; no two ingestions share an incident, and
\* every incident stored in this run comes from exactly one ingestion.
C4_IngestPersistsOne ==
    /\ \A i \in 1..Len(locs) :
          LET h == locs[i]
          IN  ValidLocation(h.latitude, h.longitude) =>
                /\ Len(h.inserted) <= 1
                /\ (Acknowledged(h) \/ h.pc = "emit") =>
                      /\ Len(h.inserted) = 1
                      /\ h.inserted[1].status = "active"
                      /\ h.forwarded \in 1..Len(channel)
                      /\ channel[h.forwarded] =
                            [IncidentMessage(h.from, h.latitude, h.longitude)
                                EXCEPT !.text = channel[h.forwarded].text,
                                       !.reply_markup = channel[h.forwarded].reply_markup]
                      /\ h.inserted[1].telegram_message_id = h.forwarded
                      /\ h.inserted[1].telegram_chat_id = GroupId
                      /\ h.inserted[1].latitude = h.latitude
                      /\ h.inserted[1].longitude = h.longitude
                      /\ h.inserted[1].reporter_id = h.from
                      /\ InsertedBy(h.inserted[1]._id) = {i}
                /\ (h.pc = "done" /\ h.reply = "error") => h.inserted = <<>>
    /\ \A k \in 1..Len(db) :
          \/ db[k]._id = EarlierIncident._id /\ InsertedBy(db[k]._id) = {}
          \/ Cardinality(InsertedBy(db[k]._id)) = 1

C4_Witness ==
    \E i \in 1..Len(locs) :
        /\ ValidLocation(locs[i].latitude, locs[i].longitude)
        /\ Acknowledged(locs[i])
        /\ \E k \in 1..Len(db) : db[k] = locs[i].inserted[1]
        /\ \E j \in 1..Len(emitted) : emitted[j] = <<"new_incident", locs[i].inserted[1]>>

\* C5: a report whose latitude is outside [-90, 90] or whose longitude is
\* outside [-180, 180] has no side effects: no message with it is in the
\* group, no incident with it is stored, no new_incident carries it.
C5_InvalidRejected ==
    /\ \A m \in 1..Len(channel) : ValidLocation(channel[m].latitude, channel[m].longitude)
    /\ \A k \in 1..Len(db) : ValidLocation(db[k].latitude, db[k].longitude)
    /\ \A i \in 1..Len(locs) :
          ~ValidLocation(locs[i].latitude, locs[i].longitude)
              => locs[i].forwarded = 0 /\ locs[i].inserted = <<>> /\ locs[i].reply # "ack"

\* C6: a callback whose verb/qualifier pair is not recognised changes neither
\* the store nor the channel nor the events emitted, in the step that handles
\* it, and the handler does nothing but call answerCallbackQuery with
\* "Unknown action." and await it.
C6_UnrecognisedNoMutation ==
    /\ [][(Len(cbs') > Len(cbs) /\ Unrecognised(cbs'[Len(cbs')].data))
            => (db' = db /\ channel' = channel /\ emitted' = emitted)]_vars
    /\ [](\A i \in 1..Len(cbs) :
            Unrecognised(cbs[i].data)
                => /\ cbs[i].pc \in {"unknown", "done", "rejected"}
                   /\ ~cbs[i].edited /\ ~cbs[i].updated /\ cbs[i].emits = 0
                   /\ cbs[i].answers = <<"Unknown action.">>)

C6_Witness ==
    /\ \E i \in 1..Len(cbs) :
          cbs[i].data = S_bogus \o US \o S_token \o US \o S_1 /\ cbs[i].pc = "done"
    /\ \E i \in 1..Len(cbs) :
          cbs[i].data = S_scene \o US \o S_other \o US \o S_42 /\ cbs[i].pc = "done"

\* The reference mapping of the specification.
ReferenceStatus(verb, qualifier) ==
    CASE verb = S_tow /\ qualifier = S_eagles -> "Tow Requested: Eagles 24"
      [] verb = S_tow /\ qualifier # S_eagles -> "Tow Requested: Other"
      [] verb = S_scene /\ qualifier = S_cleared -> "Scene Cleared"
      [] OTHER -> "Rejected"

\* C7: for a token of exactly three underscore-delimited parts the status the
\* code computes is the reference mapping's, and the code rejects exactly the
\* pairs the reference mapping rejects.
C7_StatusMapping ==
    (tokenOut # <<>> /\ Len(TokenParts(tokenIn)) = 3) =>
        LET ref == ReferenceStatus(Verb(tokenIn), Qualifier(tokenIn))
        IN  IF ref = "Rejected"
            THEN tokenOut[1].rejected
            ELSE ~tokenOut[1].rejected /\ tokenOut[1].newStatus = ref

C7_Witness ==
    /\ tokenOut # <<>>
    /\ tokenIn = S_tow \o US \o S_eagles \o US \o S_42
    /\ tokenOut[1].newStatus = "Tow Requested: Eagles 24"

\* C8: a callback whose data is not exactly three underscore-delimited parts
\* is rejected with no side effects: no channel edit, no store update, no
\* event, and the originator is not told of an update.
C8_MalformedRejected ==
    \A i \in 1..Len(cbs) :
        Len(TokenParts(cbs[i].data)) # 3
            => /\ ~cbs[i].edited /\ ~cbs[i].updated /\ cbs[i].emits = 0
               /\ ~ToldUpdated(cbs[i])

InStore(oid) == \E k \in 1..Len(db) : db[k]._id = oid

DeletedEvents(oid) ==
    {k \in 1..Len(emitted) :
        emitted[k][1] = "incident_deleted" /\ ObjectIds[emitted[k][2]] = oid}

Answered200(oid) == {i \in 1..Len(dels) : dels[i].oid = oid /\ dels[i].status = 200}

Responding(oid) == \E i \in 1..Len(dels) : dels[i].oid = oid /\ dels[i].pc = "respond"

\* C9: for every id ever stored: at most one incident_deleted event names it
\* and at most one delete request for it answers 200, however many requests
\* for it are in flight; an event or a 200 for it implies it is out of the
\* store; once no request for it is between deleteOne and its response, it is
\* out of the store exactly if one event was emitted and one request answered
\* 200, the event carrying the id string of that request. An id once out of
\* the store stays out.
C9_DeleteEmitsOnce ==
    /\ [](\A oid \in 10..(nextOid - 1) :
            /\ Cardinality(DeletedEvents(oid)) <= 1
            /\ Cardinality(Answered200(oid)) <= 1
            /\ (DeletedEvents(oid) # {} \/ Answered200(oid) # {}) => ~InStore(oid)
            /\ ~Responding(oid) =>
                  /\ ~InStore(oid) <=> Cardinality(DeletedEvents(oid)) = 1
                  /\ ~InStore(oid) <=> Cardinality(Answered200(oid)) = 1
                  /\ \A k \in DeletedEvents(oid) : \A i \in Answered200(oid) :
                        emitted[k][2] = dels[i].id)
    /\ [][\A oid \in 10..(nextOid - 1) : ~InStore(oid) => ~InStore(oid)']_vars

\* Two requests for one id were both past findOne; one answered 200, the other
\* 404.
C9_Witness ==
    \E i, j \in 1..Len(dels) :
        /\ i # j /\ dels[i].oid = dels[j].oid
        /\ dels[i].found /\ dels[j].found
        /\ dels[i].status = 200 /\ dels[j].status = 404
        /\ Cardinality(DeletedEvents(dels[i].oid)) = 1

\* C10: a delete request whose id string identifies no stored incident, and
\* whose store calls did not fail, answers 404, removes nothing and emits
\* nothing.
C10_AbsentIs404 ==
    \A i \in 1..Len(dels) :
        (dels[i].pc = "done" /\ ~dels[i].found /\ ~dels[i].failed)
            => dels[i].status = 404 /\ dels[i].deletedCount = 0 /\ dels[i].emits = 0

\* C11: applying the same new_incident twice to a local view leaves the same
\* ids on display and the same list items with the same statuses as applying
\* it once, in the polling viewer and in the push-only viewer.
C11_AddIdempotent ==
    (mergeIn # <<>> /\ mergeIn.op = "add" /\ Len(mergeOut) = 2)
        => /\ mergeOut[2].displayed = mergeOut[1].displayed
           /\ mergeOut[2].shown = mergeOut[1].shown

\* A new incident was added to a view showing another one, twice.
C11_Witness ==
    /\ mergeIn # <<>> /\ mergeIn.op = "add" /\ mergeIn.viewer = "polling"
    /\ Len(mergeOut) = 2
    /\ mergeIn.view.displayed # {}
    /\ mergeIn.incident._id \notin mergeIn.view.displayed
    /\ mergeOut[1] # mergeIn.view
    /\ mergeIn.incident._id \in mergeOut[2].displayed

\* C12: in the polling viewer an add for an id already on display leaves the
\* whole local view as it was, the status shown for that incident included,
\* whatever record the add carries; a remove of an id not on display leaves
\* the local view as it was.
C12_PresentAddAbsentRemoveNoOp ==
    (mergeIn # <<>> /\ mergeIn.viewer = "polling" /\ mergeOut # <<>>) =>
        /\ (mergeIn.op = "add" /\ mergeIn.incident._id \in mergeIn.view.displayed)
              => mergeOut[1] = mergeIn.view
        /\ (mergeIn.op = "remove" /\ mergeIn.incident._id \notin mergeIn.view.displayed)
              => mergeOut[1] = mergeIn.view

\* An action resolution on channel message m is still running.
ResolutionInFlight(m) ==
    \E i \in 1..Len(cbs) : cbs[i].message_id = m /\ cbs[i].pc # "done"

\* Every resolution on channel message m had a well-formed token and, if it
\* edited the message, went on to update the store: none stopped half-way.
ResolutionsClean(m) ==
    \A i \in 1..Len(cbs) :
        cbs[i].message_id = m
            => Len(TokenParts(cbs[i].data)) = 3 /\ (cbs[i].edited => cbs[i].updated)

\* C13: whenever an incident's stored status is Scene Cleared and no action
\* resolution on its message is in flight, the message carries no inline
\* keyboard, whatever the order in which the resolutions on that message
\* ran (with none of them failing between its edit and its update).
C13_ClearedHasNoControls ==
    \A k \in 1..Len(db) :
        (db[k].status = "Scene Cleared"
            /\ db[k].telegram_message_id \in 1..Len(channel)
            /\ ~ResolutionInFlight(db[k].telegram_message_id)
            /\ ResolutionsClean(db[k].telegram_message_id))
          => channel[db[k].telegram_message_id].reply_markup = "none"

\* The initial_incidents events a connection has been sent.
InitialEvents(socket) ==
    {k \in 1..Len(socket.received) : socket.received[k][1] = "initial_incidents"}

\* The events connection j is sent in this step.
NewlyReceived(j) ==
    {k \in 1..Len(sockets'[j].received) : k > Len(sockets[j].received)}

\* C14: the connection handler's snapshot is the collection as it is at the
\* moment find() reads it, and initial_incidents is sent with that snapshot
\* to the connection it was read for and to no other: every
\* initial_incidents a connection is sent comes from its own handler's emit
\* and carries its own handler's snapshot.
C14_InitialToThatViewerOnly ==
    /\ [][\A i \in 1..Len(sockets) :
            (sockets[i].pc = "find" /\ sockets'[i].pc = "emit")
                => sockets'[i].initialIncidents = db]_vars
    /\ [][\A j \in 1..Len(sockets) : \A k \in NewlyReceived(j) :
            sockets'[j].received[k][1] = "initial_incidents"
                => /\ sockets[j].pc = "emit" /\ sockets'[j].pc = "done"
                   /\ sockets'[j].received[k][2] = WireAll(sockets[j].initialIncidents)
                   /\ \A h \in 1..Len(sockets) :
                         h # j => NewlyReceived(h) = {}]_vars

\* Two viewers are connected; the second was sent a snapshot with an incident
\* in it, the first only its own, earlier and empty, and the broadcast that
\* followed.
C14_Witness ==
    /\ Len(sockets) = 2
    /\ sockets[1].connected /\ sockets[2].connected
    /\ sockets[1].pc = "done" /\ sockets[2].pc = "done"
    /\ Len(sockets[1].received) = 2
    /\ sockets[1].received[1] = <<"initial_incidents", <<>>>>
    /\ sockets[1].received[2][1] = "new_incident"
    /\ Len(sockets[2].received) = 1
    /\ sockets[2].received[1] = <<"initial_incidents", WireAll(db)>>
    /\ db # <<>>

\* C15: a connection whose handler has finished, and which is still
\* connected, has been sent initial_incidents exactly once, also when its
\* store read failed; no connection is ever sent it twice.
C15_InitialExactlyOnce ==
    \A i \in 1..Len(sockets) :
        /\ Cardinality(InitialEvents(sockets[i])) <= 1
        /\ (sockets[i].pc = "done" /\ sockets[i].connected)
              => Cardinality(InitialEvents(sockets[i])) = 1

\* The event this step broadcasts.
Emitted == emitted'[Len(emitted')]

EventsNamed(event) == {k \in 1..Len(emitted) : emitted[k][1] = event}

\* C16: a lifecycle event is broadcast only after its store mutation is
\* persisted and carries the persisted data. The record the location handler
\* holds after insertOne is the stored one, generated id included, and
\* new_incident carries it; incident_updated carries the document
\* findOneAndUpdate returned, which is the stored one after the update;
\* incident_deleted names an id this request removed from the store. No kind
\* of event outnumbers the mutations of its kind that succeeded.
C16_EventAfterPersist ==
    /\ [][\A i \in 1..Len(locs) :
            (locs[i].pc = "insert" /\ locs'[i].pc = "emit")
                => /\ Len(db') = Len(db) + 1
                   /\ locs'[i].inserted = <<db'[Len(db')]>>
                   /\ db'[Len(db')]._id = nextOid /\ nextOid' > nextOid]_vars
    /\ [][\A i \in 1..Len(cbs) :
            (cbs[i].pc = "update" /\ cbs'[i].pc = "emit" /\ cbs'[i].result # <<>>)
                => /\ \E k \in 1..Len(db') : db'[k] = cbs'[i].result[1]
                   /\ cbs'[i].result[1].status = cbs[i].newStatus]_vars
    /\ [][\A i \in 1..Len(dels) :
            (dels[i].pc = "deleteOne" /\ dels'[i].deletedCount = 1)
                => InStore(dels[i].oid) /\ ~InStore(dels[i].oid)']_vars
    /\ [][Len(emitted') > Len(emitted) =>
            /\ Len(emitted') = Len(emitted) + 1
            /\ db' = db
            /\ CASE Emitted[1] = "new_incident" ->
                      \E i \in 1..Len(locs) :
                          /\ locs[i].pc = "emit" /\ locs'[i].pc = "done"
                          /\ locs[i].inserted = <<Emitted[2]>>
                          /\ Emitted[2]._id \in 10..(nextOid - 1)
                 [] Emitted[1] = "incident_updated" ->
                      \E i \in 1..Len(cbs) :
                          /\ cbs[i].pc = "emit" /\ cbs'[i].pc = "answer"
                          /\ cbs[i].updated
                          /\ cbs[i].result = <<Emitted[2]>>
                 [] Emitted[1] = "incident_deleted" ->
                      \E i \in 1..Len(dels) :
                          /\ dels[i].pc = "respond" /\ dels'[i].pc = "done"
                          /\ dels[i].deletedCount = 1
                          /\ ObjectIds[Emitted[2]] = dels[i].oid
                          /\ ~InStore(dels[i].oid)
                 [] OTHER -> FALSE]_vars
    /\ [][/\ Cardinality(EventsNamed("new_incident")')
               <= Cardinality({i \in 1..Len(locs') : locs'[i].inserted # <<>>})
           /\ Cardinality(EventsNamed("incident_updated")')
               <= Cardinality({i \in 1..Len(cbs') : cbs'[i].result # <<>>})
           /\ Cardinality(EventsNamed("incident_deleted")')
               <= Cardinality({i \in 1..Len(dels') : dels'[i].deletedCount = 1})]_vars

\* An incident was reported and then towed: new_incident and incident_updated
\* were broadcast, the second with the status the store holds.
C16_Witness ==
    /\ Len(emitted) = 2
    /\ emitted[1][1] = "new_incident" /\ emitted[1][2].status = "active"
    /\ emitted[2][1] = "incident_updated"
    /\ emitted[2][2]._id = emitted[1][2]._id
    /\ emitted[2][2].status = "Tow Requested: Eagles 24"
    /\ \E k \in 1..Len(db) : db[k] = emitted[2][2]

BroadcastOf(event, payload) == \E k \in 1..Len(emitted) : emitted[k] = <<event, payload>>

\* The persisted mutations whose event has not been broadcast.
Unannounced ==
    [created |-> {i \in 1..Len(locs) :
                    locs[i].inserted # <<>>
                        /\ ~BroadcastOf("new_incident", locs[i].inserted[1])},
     updated |-> {i \in 1..Len(cbs) :
                    cbs[i].result # <<>>
                        /\ ~BroadcastOf("incident_updated", cbs[i].result[1])},
     deleted |-> {i \in 1..Len(dels) :
                    dels[i].deletedCount = 1
                        /\ ~BroadcastOf("incident_deleted", dels[i].id)}]

AllAnnounced ==
    Unannounced.created = {} /\ Unannounced.updated = {} /\ Unannounced.deleted = {}

\* C17: every persisted lifecycle mutation is followed in the end by io.emit
\* of its event, which socket.io sends to every connected viewer: the
\* inserted record as new_incident, the updated record as incident_updated,
\* the removed id as incident_deleted, whether the acknowledgement to the
\* reporter or the answer to the actor gets through or fails. Whenever a
\* persisted mutation awaits its broadcast, a state follows in which none
\* does.
C17_MutationsBroadcast == (~AllAnnounced) ~> AllAnnounced

\* The ingestion sent its companion message and then failed before an
\* incident was stored.
FailedAfterDelivery(h) == h.pc = "done" /\ h.forwarded # 0 /\ h.inserted = <<>>

\* C18: when insertOne fails after the companion message was delivered, the
\* failing step leaves the group chat, the store and the events as they are
\* and sends the reporter the failure notice; from then on the handler does
\* nothing more (only the send of the notice settles); its message stays in
\* the group (nothing deletes it, only button presses edit it), no incident
\* refers to it and no new_incident carries it.
C18_FailedIngestLeavesMessage ==
    /\ [][\A i \in 1..Len(locs) :
            (locs[i].pc = "insert" /\ locs'[i].pc = "done")
                => /\ channel' = channel /\ db' = db /\ emitted' = emitted
                   /\ locs'[i].inserted = <<>>
                   /\ locs'[i].reply = "error"]_vars
    /\ [][\A i \in 1..Len(locs) :
            FailedAfterDelivery(locs[i]) =>
                /\ [locs'[i] EXCEPT !.ack = locs[i].ack] = locs[i]
                /\ locs[i].reply = "error"
                /\ Len(channel') >= Len(channel)
                /\ channel'[locs[i].forwarded].kind = "text"
                /\ channel'[locs[i].forwarded].from = locs[i].from
                /\ \A k \in 1..Len(db') :
                      db'[k].telegram_message_id # locs[i].forwarded
                /\ \A k \in 1..Len(emitted') :
                      emitted'[k][1] = "new_incident"
                          => emitted'[k][2].telegram_message_id # locs[i].forwarded]_vars

\* An ingestion failed at insertOne; its message is in the group and a button
\* on it has since been pressed.
C18_Witness ==
    \E i \in 1..Len(locs) :
        /\ FailedAfterDelivery(locs[i])
        /\ locs[i].reply = "error"
        /\ channel[locs[i].forwarded].kind = "text"
        /\ \E j \in 1..Len(cbs) :
              cbs[j].message_id = locs[i].forwarded /\ cbs[j].pc = "done" /\ cbs[j].edited

\* The resolution edited the channel message and its store update failed.
UpdateFailedAfterEdit(h) ==
    h.pc \in {"catch", "done", "rejected"} /\ h.edited /\ ~h.updated /\ h.updates > 0

\* C19: when editMessageText succeeds and findOneAndUpdate then fails, the
\* failing step leaves the store, the edited message and the events as they
\* are and answers the actor "Error updating status."; the handler then only
\* awaits that answer, has emitted nothing, and has called editMessageText
\* once and findOneAndUpdate once. No handler calls either more than once.
C19_NoRetryNoRevert ==
    /\ [][\A i \in 1..Len(cbs) :
            (cbs[i].pc = "update" /\ cbs'[i].pc # "emit" /\ cbs'[i] # cbs[i])
                => /\ db' = db /\ channel' = channel /\ emitted' = emitted
                   /\ cbs'[i].pc = "catch"
                   /\ cbs'[i].answers = <<"Error updating status.">>]_vars
    /\ [][\A i \in 1..Len(cbs') :
            /\ cbs'[i].edits <= 1 /\ cbs'[i].updates <= 1
            /\ UpdateFailedAfterEdit(cbs'[i])
                  => /\ cbs'[i].edits = 1 /\ cbs'[i].updates = 1
                     /\ cbs'[i].emits = 0 /\ cbs'[i].result = <<>>
                     /\ cbs'[i].answers = <<"Error updating status.">>]_vars
    /\ [][\A i \in 1..Len(cbs) :
            UpdateFailedAfterEdit(cbs[i])
                => /\ [cbs'[i] EXCEPT !.pc = "done"] = [cbs[i] EXCEPT !.pc = "done"]
                   /\ cbs'[i] # cbs[i] => db' = db /\ channel' = channel
                                             /\ emitted' = emitted]_vars

\* The edit went through, the update failed: the message shows the new status
\* and the store still holds the old one.
C19_Witness ==
    \E i \in 1..Len(cbs) :
        /\ UpdateFailedAfterEdit(cbs[i])
        /\ cbs[i].answers = <<"Error updating status.">>
        /\ channel[cbs[i].message_id].text = <<cbs[i].newStatus>>
        /\ \E k \in 1..Len(db) :
              MatchesMessage(db[k], cbs[i]) /\ db[k].status = "active"

\* C20: for every callback_query the handler calls, in the end,
\* answerCallbackQuery for its originator, on every path: unknown token,
\* successful update, failed edit, failed store update.
C20_EveryActionAnswered ==
    \A i \in 1..MaxOps :
        (i <= Len(cbs)) ~> (i <= Len(cbs) /\ cbs[i].answers # <<>>)

\* Tokens with the verb and the qualifier of token t.
SameVerbAndQualifier(t) ==
    {u \in TokenSpace : Verb(u) = Verb(t) /\ Qualifier(u) = Qualifier(t)}

\* C21: the status a token resolves to depends on its verb and qualifier
\* only: every token with the same verb and qualifier, whatever its actor-id
\* part and whether it has one, resolves to the same status, the same
\* decision on the buttons and the same acceptance; the mapping reads
\* nothing but the token.
C21_StatusOfVerbAndQualifier ==
    tokenOut # <<>> =>
        \A u \in SameVerbAndQualifier(tokenIn) :
            /\ Resolve(u).newStatus = tokenOut[1].newStatus
            /\ Resolve(u).removeButtons = tokenOut[1].removeButtons
            /\ Resolve(u).rejected = tokenOut[1].rejected

\* tow_eagles_1 resolved to the status tow_eagles_42 resolves to.
C21_Witness ==
    /\ tokenOut # <<>>
    /\ tokenIn = S_tow \o US \o S_eagles \o US \o S_1
    /\ S_tow \o US \o S_eagles \o US \o S_42 \in SameVerbAndQualifier(tokenIn)
    /\ tokenOut[1].newStatus = "Tow Requested: Eagles 24"


\* A store call of some handler has thrown: a location report answered with
\* the error message, a resolution answered with the error answer, a GET or
\* DELETE request whose store call failed.
HandlerStoreFailures ==
    Cardinality({i \in 1..Len(locs) : locs[i].reply = "error"})
    + Cardinality({i \in 1..Len(cbs) : \E a \in 1..Len(cbs[i].answers) :
                        cbs[i].answers[a] = "Error updating status."})
    + Cardinality({i \in 1..Len(dels) : dels[i].failed})
    + Cardinality({i \in 1..Len(gets) : gets[i].failed})

\* A call to the messaging channel has rejected with nothing to handle it:
\* an awaited answerCallbackQuery outside the try block, or a message to the
\* reporter that was not awaited.
ChannelRejections ==
    Cardinality({i \in 1..Len(cbs) : cbs[i].pc = "rejected"})
    + Cardinality({i \in 1..Len(locs) : locs[i].ack = "failed"})

\* C22: the process listens only once the store connection is established; a
\* step in which the connection fails ends a process that has never
\* listened and never will; a step in which a handler's store call fails
\* leaves the process as it was, listening and running if it was; the
\* process ends in no other step than a failed connection, a failed
\* server.listen (no handler takes a step in either) or a rejected channel
\* call that nothing handles.
C22_StartupFatalLaterNot ==
    [][ /\ (server'.listening => server'.connected)
        /\ (server.exited => server' = server)
        /\ (server'.exited /\ ~server.exited /\ ~server.connected
               => ~server.listening /\ ~server'.listening /\ ~server'.connected)
        /\ (server'.exited /\ ~server.exited
               => \/ /\ ~server.connected /\ ~server.listening
                     /\ serverVars' = serverVars /\ gets' = gets
                  \/ /\ server.connected /\ ~server.listening
                     /\ serverVars' = serverVars /\ gets' = gets
                  \/ ChannelRejections' > ChannelRejections)
        /\ (HandlerStoreFailures' > HandlerStoreFailures /\ Running(server)
               => server' = server) ]_vars

\* A request is answered 200 by a listening process after the store call of
\* an earlier handler has failed.
C22_Witness ==
    /\ Listening(server)
    /\ \E i \in 1..Len(gets) :
          /\ ~gets[i].failed /\ gets[i].status = 200
          /\ \E j \in 1..(i - 1) : gets[j].failed /\ gets[j].status = 500


\* C23: a GET /incidents or DELETE /incidents/{id} request whose store call
\* failed is answered 500 and nothing else; neither the step in which the
\* call fails nor the step that answers emits an event or changes the store.
C23_HttpStoreFailure ==
    [][ /\ (\A i \in 1..Len(gets') :
               gets'[i].failed
               => /\ gets'[i].status \in {0, 500}
                  /\ gets'[i].pc = "done" => gets'[i].status = 500
                  /\ (i > Len(gets) \/ gets'[i] # gets[i])
                        => emitted' = emitted /\ db' = db)
        /\ (\A i \in 1..Len(dels') :
               dels'[i].failed /\ (i > Len(dels) \/ ~dels[i].failed)
               => dels'[i].status = 500 /\ dels'[i].pc = "done"
                  /\ dels'[i].emits = 0 /\ emitted' = emitted /\ db' = db) ]_vars

\* Both kinds of request have met a store failure, the DELETE one at its
\* deleteOne call, with an incident in the store.
C23_Witness ==
    /\ \E i \in 1..Len(gets) : gets[i].failed /\ gets[i].status = 500
    /\ \E i \in 1..Len(dels) : dels[i].failed /\ dels[i].found
    /\ db # <<>>


\* The channel message reference of a stored incident.
MessageRef(doc) == <<doc.telegram_chat_id, doc.telegram_message_id>>

\* C24: the store never holds two incidents with the same
\* (telegram_chat_id, telegram_message_id) pair; every send to the group
\* yields a message identifier of its own.
C24_OneIncidentPerMessage ==
    \A i, j \in 1..Len(db) : MessageRef(db[i]) = MessageRef(db[j]) => i = j

\* Two reports have been stored, each under the message sent for it.
C24_Witness ==
    /\ Len(db) >= 2
    /\ \E i, j \in 1..Len(locs) : i # j /\ locs[i].inserted # <<>> /\ locs[j].inserted # <<>>


\* The fields an incident keeps from its creation on.
CreatedFields(doc) ==
    <<doc._id, doc.reporter_id, doc.reporter_name, doc.latitude, doc.longitude,
      doc.telegram_chat_id, doc.telegram_message_id, doc.timestamp>>

\* The fields a resolution may write.
MutableFields(doc) == <<doc.status, doc.last_updated>>

\* The resolutions whose findOneAndUpdate matched a document in this step.
UpdatedNow(before, after) ==
    {i \in 1..Len(before) : before[i].result = <<>> /\ after[i].result # <<>>}

\* C25: in every step, every incident that stays in the store keeps the
\* fields it was created with; its status and last_updated change only in a
\* step in which a resolution's update matched it by its channel message
\* reference, and no other incident changes in that step; and every update
\* that matches leaves last_updated set to the time of that update.
C25_ResolveTouchesStatusOnly ==
    [][ /\ \A k \in 1..Len(db), l \in 1..Len(db') :
              db[k]._id = db'[l]._id
              => /\ CreatedFields(db'[l]) = CreatedFields(db[k])
                 /\ (MutableFields(db'[l]) # MutableFields(db[k])
                       => \E i \in UpdatedNow(cbs, cbs') :
                             /\ MatchesMessage(db[k], cbs[i])
                             /\ db'[l] = cbs'[i].result[1])
        /\ \A i \in UpdatedNow(cbs, cbs') :
              /\ cbs'[i].result[1].status = cbs[i].newStatus
              /\ cbs'[i].result[1].last_updated = <<NewDate("callback_query", i)>>
              /\ Cardinality({k \in 1..Len(db) : db[k] \notin {db'[l] : l \in 1..Len(db')}}) <= 1
              /\ \E l \in 1..Len(db') : db'[l] = cbs'[i].result[1]
              /\ Len(db') = Len(db) ]_vars

\* A resolution has updated one incident while another incident is in the
\* store.
C25_Witness ==
    /\ Len(db) >= 2
    /\ \E k \in 1..Len(db), i \in 1..Len(cbs) :
          /\ cbs[i].result # <<>>
          /\ cbs[i].result[1] = db[k]
          /\ db[k].status # "active"


\* The resolutions that ran on channel message m.
ResolutionsOn(m) == {i \in 1..Len(cbs) : cbs[i].message_id = m}

\* Every resolution on channel message m came from a button of the keyboard
\* and has run to its end without a failure: it edited the message, updated
\* the store and answered the press.
ResolvedFailureFree(m) ==
    /\ ResolutionsOn(m) # {}
    /\ \A i \in ResolutionsOn(m) :
          /\ Len(TokenParts(cbs[i].data)) = 3
          /\ cbs[i].pc = "done"
          /\ cbs[i].edited
          /\ cbs[i].updated
          /\ cbs[i].result # <<>>
          /\ cbs[i].answers = <<StatusUpdated(cbs[i].newStatus)>>

\* The status the audit line of a message names: the text appended last.
AuditStatus(message) ==
    IF message.text = <<>> THEN "" ELSE message.text[Len(message.text)]

\* C26: once every resolution on an incident's message has completed, none
\* having failed, the status named in the message's audit line is the status
\* stored for the incident, whatever the interleaving of the resolutions.
C26_AuditLineIsStoredStatus ==
    \A k \in 1..Len(db) :
        (db[k].telegram_message_id \in 1..Len(channel)
            /\ ResolvedFailureFree(db[k].telegram_message_id))
          => AuditStatus(channel[db[k].telegram_message_id]) = db[k].status


\* Every list item made for an incident of the snapshot shows the status the
\* snapshot gives that incident.
ShowsStatusOf(shown, incidents) ==
    \A j \in 1..Len(shown), n \in 1..Len(incidents) :
        shown[j].id = incidents[n]._id => shown[j].status = incidents[n].status

\* C27: a successful run of fetchNewIncidents on a snapshot read from the
\* store as it is now, with no socket event waiting for the client, still to
\* be emitted or still to be read for, leaves every displayed incident
\* showing the status the snapshot gives it.
C27_PollRepairsStatus ==
    [][\A k \in 1..Len(polls) :
          (polls' = RemoveAt(polls, k) /\ lastPollIncidents' = polls[k].incidents
              /\ Current(polls[k]) /\ inbox = <<>> /\ unsent = <<>> /\ ~reading)
            => ShowsStatusOf(statusShown', polls[k].incidents)]_vars


\* C29: the step in which the polling client handles initial_incidents
\* leaves the displayed ids equal to the ids of the snapshot received: what
\* was displayed before and is not in the snapshot is removed.
C29_InitialReplacesView ==
    [][(inbox # <<>> /\ inbox' = Tail(inbox) /\ inbox[1][1] = "initial_incidents")
          => displayedIncidentIds' = IdsOf(inbox[1][2])]_vars

\* C30: an id whose incident_deleted event the polling client has handled
\* is not displayed, at any later time.
C30_DeletedStaysGone == displayedIncidentIds \cap deletedSeen = {}


\* C28: a push-only viewer that is connected, whose initial_incidents has
\* been sent, and that has handled every event sent on its connection,
\* displays exactly the ids in the store once no handler has an event still
\* to emit, also when an incident was created or
\* deleted between the connection's store read and its initial_incidents.
C28_PushViewerMatchesStore ==
    \A i \in 1..Len(sockets) :
        (sockets[i].connected /\ sockets[i].pc = "done" /\ ~sockets[i].failed
            /\ unsent = <<>>)
          => PushViewAfter(sockets[i].received, Len(sockets[i].received)).displayed
               = IdsOf(WireAll(db))


\* C31: every step in which a location handler makes its store call
\* (insertOne, line 155) or a callback handler makes its store call
\* (findOneAndUpdate, line 209) is taken with the store handle assigned by
\* connectToMongo.
C31_StoreAccessAfterConnect ==
    [][ /\ \A i \in 1..Len(locs) :
              (locs[i].pc = "insert" /\ locs'[i].pc # "insert") => DbAssigned(server)
        /\ \A i \in 1..Len(cbs) :
              (cbs[i].pc = "update" /\ cbs'[i].pc # "update") => DbAssigned(server) ]_vars

====
